---- MODULE Spec2Model ----
(***************************************************************************)
(* A model of netcop's Conf (src/netcop/parser.py): the indentation-driven *)
(* tree builder, the tokenizer, the lazy per-node index, the path resolver *)
(* ([]), the wildcard expander and the scalar / dump accessors.            *)
(*                                                                         *)
(* Representation of Python values                                         *)
(*   character  a one-letter string ("a", "A", ";", "*", ...)              *)
(*   token      a sequence of characters; <<>> is the empty string ""      *)
(*   string     a record [none, lead, toks, trail]: `lead' whitespace      *)
(*              characters, the tokens separated by single blanks, `trail' *)
(*              whitespace characters; none = TRUE is Python's None        *)
(*   Conf       a record in `heap', addressed by its position (identity)   *)
(***************************************************************************)
EXTENDS Integers, Sequences, FiniteSets, TLC

VARIABLES lines, heap, stack, pos, pc, held, out, calls, platform, threads

vars == <<lines, heap, stack, pos, pc, held, out, calls, platform, threads>>

(***************************************************************************)
(* Bounds of the model.                                                    *)
(***************************************************************************)
MaxLines == 3

MaxIndent == 2

MaxCalls == 2

(***************************************************************************)
(* Arithmetic helpers of the statements below.                             *)
(***************************************************************************)
Max(S) == CHOOSE x \in S : \A y \in S : y <= x

Min(S) == CHOOSE x \in S : \A y \in S : x <= y

\* The elements of a finite set of numbers in increasing order.
RECURSIVE Ascending(_)
Ascending(S) == IF S = {} THEN <<>> ELSE <<Min(S)>> \o Ascending(S \ {Min(S)})

(***************************************************************************)
(* Strings.                                                                *)
(***************************************************************************)
None == [none |-> TRUE, lead |-> 0, toks |-> <<>>, trail |-> 0]

Str(lead, toks) == [none |-> FALSE, lead |-> lead, toks |-> toks, trail |-> 0]

EmptyStr == Str(0, <<>>)

\* Python truthiness of an Optional[str]: neither None nor "".
Truthy(s) == ~s.none /\ (s.toks # <<>> \/ s.lead > 0 \/ s.trail > 0)

\* str.rstrip(): trailing whitespace goes; a whitespace-only string becomes "".
rstrip(s) == IF s.toks = <<>> THEN EmptyStr ELSE [s EXCEPT !.trail = 0]

\* str.strip()
strip(s) == IF s.toks = <<>> THEN EmptyStr ELSE [s EXCEPT !.lead = 0, !.trail = 0]

\* str.lower() on one character and on a token.
LowerChar(c) == CASE c = "A" -> "a" [] c = "B" -> "b" [] OTHER -> c

lower(tok) == [i \in 1..Len(tok) |-> LowerChar(tok[i])]

endswith(tok, c) == Len(tok) > 0 /\ tok[Len(tok)] = c

\* rest.startswith(("#", "!")) for a string
startswithComment(s) ==
    /\ s.lead = 0
    /\ s.toks # <<>>
    /\ s.toks[1] # <<>>
    /\ s.toks[1][1] \in {"#", "!"}

(***************************************************************************)
(* Conf._next_token: <<token.lower(), token, rest>> or ("", "", "").       *)
(***************************************************************************)
no_more == [lc |-> <<>>, token |-> <<>>, rest |-> EmptyStr]

\* return token.lower(), token, rest
_token_triple(token, rest) == [lc |-> lower(token), token |-> token, rest |-> rest]

\* the statement terminator: token[:-1] when nothing or a comment follows
_strip_terminator(token, rest) ==
    IF endswith(token, ";") /\ (rest = EmptyStr \/ startswithComment(rest))
    THEN _token_triple(SubSeq(token, 1, Len(token) - 1), rest)
    ELSE _token_triple(token, rest)

\* items = string.split(None, 1): token = items[0], rest = items[1] or ""
_first_token(token, rest) ==
    IF token \in {<<"{">>, <<"}">>, <<"#">>, <<"!">>} THEN no_more
    ELSE _strip_terminator(token, rest)

_next_token(string) ==
    IF string.none \/ string.toks = <<>> THEN no_more
    ELSE _first_token(string.toks[1], Str(0, Tail(string.toks)))

(***************************************************************************)
(* Conf objects.                                                           *)
(***************************************************************************)
\* Conf.__init__ with no text and no lines: the empty, falsy node.
EmptyConf ==
    [_line |-> None, _orig_line |-> EmptyStr, _lineno |-> 0, _trace |-> <<>>,
     _children |-> <<>>, _index |-> <<>>]

\* Conf._new(line, lineno, children, orig_line)
_new(line, lineno, children, orig_line) ==
    [_line |-> line,
     _orig_line |-> IF Truthy(orig_line) THEN orig_line
                    ELSE IF Truthy(line) THEN line ELSE EmptyStr,
     _lineno |-> lineno, _trace |-> <<>>,
     _children |-> children, _index |-> <<>>]

Root == 1

(***************************************************************************)
(* Conf._parse, one iteration of the `for' loop per step.                  *)
(***************************************************************************)
RECURSIVE PopLoose(_, _)
PopLoose(stk, indent) ==
    IF indent < stk[Len(stk)].indent /\ stk[Len(stk)].node # Root
    THEN PopLoose(SubSeq(stk, 1, Len(stk) - 1), indent)
    ELSE stk

\* while len(indent) <= len(stack[-1][1]) and stack[-1][0] is not self: pop
RECURSIVE PopStack(_, _)
PopStack(stk, indent) ==
    IF indent <= stk[Len(stk)].indent /\ stk[Len(stk)].node # Root
    THEN PopStack(SubSeq(stk, 1, Len(stk) - 1), indent)
    ELSE stk

IsBlank(raw) == rstrip(raw) = EmptyStr

ParseNodeKeepRaw(raw, lineno) == _new(raw, lineno, <<>>, None)

\* line = line.rstrip(); node = Conf._new(line, lineno)
ParseNode(raw, lineno) == _new(rstrip(raw), lineno, <<>>, None)

ParseLine ==
    /\ pc = "parse"
    /\ pos < Len(lines)
    /\ LET raw    == lines[pos + 1]
           line   == rstrip(raw)
           indent == line.lead
           id     == Len(heap) + 1
           stk    == IF indent > stack[Len(stack)].indent
                     THEN stack ELSE PopStack(stack, indent)
           top    == stk[Len(stk)].node
       IN IF IsBlank(raw)
          THEN UNCHANGED <<heap, stack>>
          ELSE /\ heap' = Append([heap EXCEPT ![top]._children = Append(@, id)],
                                 ParseNode(raw, pos))
               /\ stack' = Append(stk, [node |-> id, indent |-> indent])
    /\ pos' = pos + 1
    /\ UNCHANGED <<lines, pc, held, out, calls, platform, threads>>

\* End of Conf.__init__: if self._children: self._line = ""
ParseDone ==
    /\ pc = "parse"
    /\ pos = Len(lines)
    /\ heap' = IF heap[Root]._children # <<>>
               THEN [heap EXCEPT ![Root]._line = EmptyStr] ELSE heap
    /\ pc' = "ready"
    /\ held' = {Root}
    /\ UNCHANGED <<lines, stack, pos, out, calls, platform, threads>>

(***************************************************************************)
(* Conf._iter_lines(depth, orig_lines): the (text, depth) pairs of a       *)
(* subtree in pre-order; lines(), orig_lines() and dump() are built on it. *)
(***************************************************************************)
RECURSIVE _iter_lines_post(_, _, _, _)
RECURSIVE _iter_kids_post(_, _, _, _)
_iter_lines_post(h, id, depth, orig_lines) ==
    _iter_kids_post(h, h[id]._children, depth + 1, orig_lines)
    \o (IF Truthy(h[id]._line)
        THEN <<[line  |-> IF orig_lines THEN h[id]._orig_line ELSE h[id]._line,
                level |-> depth]>>
        ELSE <<>>)

_iter_kids_post(h, kids, depth, orig_lines) ==
    IF kids = <<>> THEN <<>>
    ELSE _iter_lines_post(h, Head(kids), depth, orig_lines)
         \o _iter_kids_post(h, Tail(kids), depth, orig_lines)

RECURSIVE _iter_lines(_, _, _, _)
RECURSIVE _iter_kids(_, _, _, _)
_iter_lines(h, id, depth, orig_lines) ==
    (IF Truthy(h[id]._line)
     THEN <<[line  |-> IF orig_lines THEN h[id]._orig_line ELSE h[id]._line,
             level |-> depth]>>
     ELSE <<>>)
    \o _iter_kids(h, h[id]._children, depth + 1, orig_lines)

\* for c in self._children: yield from c._iter_lines(depth + 1, orig_lines)
_iter_kids(h, kids, depth, orig_lines) ==
    IF kids = <<>> THEN <<>>
    ELSE _iter_lines(h, Head(kids), depth, orig_lines)
         \o _iter_kids(h, Tail(kids), depth, orig_lines)

\* Conf.orig_lines
orig_lines(h, id) ==
    LET ls == _iter_lines(h, id, 0, TRUE) IN [i \in 1..Len(ls) |-> ls[i].line]

\* Conf.lines
lines_of(h, id) ==
    LET ls == _iter_lines(h, id, 0, FALSE) IN [i \in 1..Len(ls) |-> ls[i].line]

CallOrigLines ==
    /\ pc = "ready"
    /\ calls < MaxCalls
    /\ calls' = calls + 1
    /\ \E n \in held :
          out' = [op |-> "orig_lines", node |-> n, res |-> orig_lines(heap, n)]
    /\ UNCHANGED <<lines, heap, stack, pos, pc, held, platform, threads>>

(***************************************************************************)
(* Conf._reindex: the lazy index, an insertion-ordered dict modelled as a  *)
(* sequence of buckets [lc, token, nodes].  Returns the heap afterwards.   *)
(***************************************************************************)
HasKey(index, lc) == \E i \in 1..Len(index) : index[i].lc = lc

KeyPos(index, lc) == CHOOSE i \in 1..Len(index) : index[i].lc = lc

\* index.setdefault(token_lc, (token, []))[1].append(new), keeping the
\* display keyword of the last line instead of the first
setdefault_append_last(index, lc, token, id) ==
    IF HasKey(index, lc)
    THEN [index EXCEPT ![KeyPos(index, lc)] =
              [lc |-> lc, token |-> token, nodes |-> Append(@.nodes, id)]]
    ELSE Append(index, [lc |-> lc, token |-> token, nodes |-> <<id>>])

\* index.setdefault(token_lc, (token, []))[1].append(new)
setdefault_append(index, lc, token, id) ==
    IF HasKey(index, lc)
    THEN [index EXCEPT ![KeyPos(index, lc)].nodes = Append(@, id)]
    ELSE Append(index, [lc |-> lc, token |-> token, nodes |-> <<id>>])

\* for c in self._children: ...   (h grows by one node per indexed child)
RECURSIVE _reindex_children(_, _, _)
_reindex_child(h, index, kids, c, nt) ==
    IF nt.token # <<>>
    THEN _reindex_children(
             Append(h, _new(nt.rest, c._lineno, c._children, c._orig_line)),
             setdefault_append(index, nt.lc, nt.token, Len(h) + 1),
             Tail(kids))
    ELSE _reindex_children(h, index, Tail(kids))

_reindex_children(h, index, kids) ==
    IF kids = <<>> THEN [h |-> h, index |-> index]
    ELSE _reindex_child(h, index, kids, h[Head(kids)],
                        _next_token(h[Head(kids)]._line))

\* self._index = index
_store_index(r, id) == [r.h EXCEPT ![id]._index = r.index]

\* the map started from the one the node already publishes
_index_seed_shared(h, id) == h[id]._index

\* index = {}: a map of the call's own
_index_seed(h, id) == <<>>

\* the map built by _reindex, before it is stored
_build_index(h, id, self, nt) ==
    IF nt.token # <<>>
    THEN [h     |-> Append(h, _new(nt.rest, self._lineno,
                                   self._children, self._orig_line)),
          index |-> <<[lc |-> nt.lc, token |-> nt.token,
                       nodes |-> <<Len(h) + 1>>]>>]
    ELSE _reindex_children(h, _index_seed(h, id), self._children)

\* the body of _reindex once the node's own line is tokenized
_reindex_from(h, id, self, nt) == _store_index(_build_index(h, id, self, nt), id)

_reindex(h, id) ==
    IF h[id]._index # <<>> THEN h
    ELSE _reindex_from(h, id, h[id], _next_token(h[id]._line))

(***************************************************************************)
(* Conf.__getitem__: returns the heap afterwards and the node returned.    *)
(***************************************************************************)
RECURSIVE __getitem__(_, _, _)
\* if rest: return ret[rest]; return ret
_getitem_rest(h, ret, rest) ==
    IF Truthy(rest) THEN __getitem__(h, ret, rest) ELSE [h |-> h, ret |-> ret]

\* ret._trace = (*self._trace, token)
_getitem_trace(h, id, ret, token, rest) ==
    _getitem_rest([h EXCEPT ![ret]._trace = Append(h[id]._trace, token)],
                  ret, rest)

\* token, ret_list = pair: the single contributor, or a new merge node
_getitem_pair(h, id, pair, rest) ==
    IF Len(pair.nodes) = 1
    THEN _getitem_trace(h, id, pair.nodes[1], pair.token, rest)
    ELSE _getitem_trace(
             Append(h, _new(EmptyStr, h[pair.nodes[1]]._lineno, pair.nodes,
                            h[pair.nodes[1]]._orig_line)),
             id, Len(h) + 1, pair.token, rest)

\* pair = self._index.get(token_lc); if not pair: return Conf()
_getitem_lookup(h, id, nt) ==
    IF ~HasKey(h[id]._index, nt.lc)
    THEN [h |-> Append(h, EmptyConf), ret |-> Len(h) + 1]
    ELSE _getitem_pair(h, id, h[id]._index[KeyPos(h[id]._index, nt.lc)], nt.rest)

_getitem_token(h, id, nt) ==
    IF nt.lc = <<>> THEN [h |-> h, ret |-> id]
    ELSE _getitem_lookup(_reindex(h, id), id, nt)

__getitem__(h, id, key) == _getitem_token(h, id, _next_token(key))

\* Conf.__bool__
__bool__(h, id) == ~h[id]._line.none

_display_keys(h, id) ==
    [h |-> h, res |-> [i \in 1..Len(h[id]._index) |-> h[id]._index[i].token]]

\* Conf.__iter__ consumed by list(): the display keywords of the index
__iter__(h, id) == _display_keys(_reindex(h, id), id)

_index_size(h, id) == [h |-> h, res |-> Len(h[id]._index)]

\* Conf.__len__
__len__(h, id) == _index_size(_reindex(h, id), id)

_truth_of(r) == [h |-> r.h, res |-> __bool__(r.h, r.ret)]

\* Conf.__contains__
__contains__(h, id, key) == _truth_of(__getitem__(_reindex(h, id), id, key))

(***************************************************************************)
(* Scalar accessors.  err is "none" or the exception raised.               *)
(***************************************************************************)
\* _ensure_scalar counting the matching lines instead of the keywords
_scalar_of_lines(h, index) ==
    [h   |-> h,
     err |-> IF Len(index) = 0 THEN "KeyError:none"
             ELSE IF Len(index) > 1 \/ Len(index[1].nodes) > 1
                  THEN "KeyError:multiple" ELSE "none",
     res |-> IF Len(index) = 1 THEN index[1].lc ELSE <<>>]

\* the checks of _ensure_scalar; next(iter(self._index)) is the first KEY
_scalar_of(h, index) ==
    [h   |-> h,
     err |-> IF Len(index) = 0 THEN "KeyError:none"
             ELSE IF Len(index) > 1 THEN "KeyError:multiple" ELSE "none",
     res |-> IF Len(index) = 1 THEN index[1].lc ELSE <<>>]

_indexed(h, id) == _scalar_of(h, h[id]._index)

\* Conf._ensure_scalar
_ensure_scalar(h, id) == _indexed(_reindex(h, id), id)

\* Conf.word
word(h, id) == _ensure_scalar(h, id)

\* except KeyError: return default
_get_default(w) == [h |-> w.h, isdefault |-> w.err # "none", res |-> w.res]

_get_word(r) == _get_default(word(r.h, r.ret))

\* Conf.get(key) with default None and no type: a KeyError becomes the default
get(h, id, key) == _get_word(__getitem__(h, id, key))

(***************************************************************************)
(* fnmatch.filter(self, token) as Conf.expand uses it.  os.path.normcase   *)
(* is the identity on POSIX and lower-cases on Windows, so the match is    *)
(* case-sensitive or not depending on the platform the program runs on.    *)
(* Patterns are made of literals, "*" and "?" (a "[" never closes in the   *)
(* alphabet of the model, and fnmatch then takes it literally).            *)
(***************************************************************************)
RECURSIVE fnmatchcase(_, _)
fnmatchcase(name, pat) ==
    IF pat = <<>> THEN name = <<>>
    ELSE IF Head(pat) = "*"
         THEN fnmatchcase(name, Tail(pat))
              \/ (name # <<>> /\ fnmatchcase(Tail(name), pat))
         ELSE /\ name # <<>>
              /\ (Head(pat) = "?" \/ Head(pat) = Head(name))
              /\ fnmatchcase(Tail(name), Tail(pat))

normcase(plat, tok) == IF plat = "nt" THEN lower(tok) ELSE tok

RECURSIVE SelectSeq2(_, _, _)
SelectSeq2(names, plat, pat) ==
    IF names = <<>> THEN <<>>
    ELSE (IF fnmatchcase(normcase(plat, Head(names)), normcase(plat, pat))
          THEN <<Head(names)>> ELSE <<>>)
         \o SelectSeq2(Tail(names), plat, pat)

Reverse(q) == [i \in 1..Len(q) |-> q[Len(q) + 1 - i]]

fnmatch_filter_reversed(names, plat, pat) == Reverse(SelectSeq2(names, plat, pat))

fnmatch_filter(names, plat, pat) == SelectSeq2(names, plat, pat)

\* any(x in token for x in "*?[")
IsGlob(token) == \E i \in 1..Len(token) : token[i] \in {"*", "?", "["}

(***************************************************************************)
(* Conf.expand, drained by its caller.  A yielded tuple is a sequence of   *)
(* captures: a keyword, a stripped line text, or a Conf (return_conf).     *)
(***************************************************************************)
CapWord(tok) == [kind |-> "word", word |-> tok, text |-> EmptyStr, conf |-> 0]

CapText(s) == [kind |-> "text", word |-> <<>>, text |-> s, conf |-> 0]

CapConf(id) == [kind |-> "conf", word |-> <<>>, text |-> EmptyStr, conf |-> id]

\* a single token as a key string
TokStr(token) == IF token = <<>> THEN EmptyStr ELSE Str(0, <<token>>)

\* Conf._expand_cfg(trace_str) with trace_str.split() = trace
_expand_cfg(h, id, trace) ==
    Append(h, [_new(IF h[id]._children = <<>> THEN None ELSE EmptyStr,
                    h[id]._lineno, h[id]._children, h[id]._orig_line)
               EXCEPT !._trace = trace])

\* the tuple yielded for a line: (line.strip(),) or (line.strip(), conf)
_tail_tuple(line, conf, return_conf) ==
    IF return_conf THEN <<CapText(strip(line)), CapConf(conf)>>
    ELSE <<CapText(strip(line))>>

\* node._expand_cfg(self.trace + " " + node._line), built only if return_conf
_tail_heap(h, node, trace, return_conf) ==
    IF return_conf THEN _expand_cfg(h, node, trace \o h[node]._line.toks) ELSE h

\* for c in self._children: assert c._line; yield (c._line.strip(), ...)
RECURSIVE expand_tails(_, _, _, _, _)
_expand_tail(h, id, kids, return_conf, acc, c) ==
    IF ~Truthy(h[c]._line)
    THEN [h |-> h, yields |-> acc, err |-> "AssertionError"]
    ELSE expand_tails(_tail_heap(h, c, h[id]._trace, return_conf),
                      id, Tail(kids), return_conf,
                      Append(acc, _tail_tuple(h[c]._line, Len(h) + 1, return_conf)))

expand_tails(h, id, kids, return_conf, acc) ==
    IF kids = <<>> THEN [h |-> h, yields |-> acc, err |-> "none"]
    ELSE _expand_tail(h, id, kids, return_conf, acc, Head(kids))

\* if token == "~": ...
_expand_tilde(h, id, rest, return_conf) ==
    IF Truthy(rest)
    THEN [h |-> h, err |-> "ValueError", yields |-> <<>>]
    ELSE IF Truthy(h[id]._line)
         THEN [h      |-> _tail_heap(h, id, h[id]._trace, return_conf),
               err    |-> "none",
               yields |-> <<_tail_tuple(h[id]._line, Len(h) + 1, return_conf)>>]
         ELSE expand_tails(h, id, h[id]._children, return_conf, <<>>)

RECURSIVE expand(_, _, _, _, _)
RECURSIVE expand_keys(_, _, _, _, _, _, _)
\* self[k].expand(rest, return_conf), g being the result of self[k]
_expand_into(g, rest, return_conf, plat) ==
    expand(g.h, g.ret, rest, return_conf, plat)

\* elif any(x in token for x in "*?["): for k in fnmatch.filter(self, token)
_expand_glob(it, id, nt, return_conf, plat) ==
    expand_keys(it.h, id, fnmatch_filter(it.res, plat, nt.token),
                nt.rest, return_conf, plat, <<>>)

\* elif self[token]: for ret in self[token].expand(rest, return_conf)
_expand_literal(g, id, nt, return_conf, plat) ==
    IF __bool__(g.h, g.ret)
    THEN _expand_into(__getitem__(g.h, id, TokStr(nt.token)),
                      nt.rest, return_conf, plat)
    ELSE [h |-> g.h, err |-> "none", yields |-> <<>>]

\* the three branches on the first token of the key
_expand_token(h, id, nt, return_conf, plat) ==
    IF nt.token = <<"~">>
    THEN _expand_tilde(h, id, nt.rest, return_conf)
    ELSE IF IsGlob(nt.token)
         THEN _expand_glob(__iter__(h, id), id, nt, return_conf, plat)
         ELSE _expand_literal(__getitem__(h, id, TokStr(nt.token)),
                              id, nt, return_conf, plat)

expand(h, id, key, return_conf, plat) ==
    IF ~Truthy(key)
    THEN [h |-> h, err |-> "none",
          yields |-> <<IF return_conf THEN <<CapConf(id)>> ELSE <<>> >>]
    ELSE _expand_token(_reindex(h, id), id, _next_token(key), return_conf, plat)

\* an exception inside the nested generator ends the iteration
_expand_next(id, ks, rest, return_conf, plat, r, new) ==
    IF r.err # "none"
    THEN [h |-> r.h, err |-> r.err, yields |-> new]
    ELSE expand_keys(r.h, id, Tail(ks), rest, return_conf, plat, new)

\* yield (k, *ret) for each ret of the nested generator
_expand_key(id, ks, rest, return_conf, plat, acc, r) ==
    _expand_next(id, ks, rest, return_conf, plat, r,
                 acc \o [i \in 1..Len(r.yields) |->
                            <<CapWord(Head(ks))>> \o r.yields[i]])

\* for k in ...: for ret in self[k].expand(rest, return_conf): yield (k, *ret)
expand_keys(h, id, ks, rest, return_conf, plat, acc) ==
    IF ks = <<>> THEN [h |-> h, err |-> "none", yields |-> acc]
    ELSE _expand_key(id, ks, rest, return_conf, plat, acc,
                     _expand_into(__getitem__(h, id, TokStr(Head(ks))),
                                  rest, return_conf, plat))

\* Conf.tails
tails(h, id, plat) == expand(h, id, Str(0, <<<<"~">>>>), FALSE, plat)

(***************************************************************************)
(* Conf.dump: the sequence of file.write calls.  A written piece is the    *)
(* header "[trace]", a "\n", a " ", or a line: `units' copies of the       *)
(* indent unit, the text, "\n".                                            *)
(***************************************************************************)
Header(trace) == [w |-> "header", trace |-> trace, units |-> 0, text |-> EmptyStr]

Newline == [w |-> "newline", trace |-> <<>>, units |-> 0, text |-> EmptyStr]

Space == [w |-> "space", trace |-> <<>>, units |-> 0, text |-> EmptyStr]

Line(units, text) == [w |-> "line", trace |-> <<>>, units |-> units, text |-> text]

\* indent * level: a string repeated a negative number of times is ""
Times(level) == IF level < 0 THEN 0 ELSE level

\* _put_line for every (line, level) of the walk
_put_lines(ls, indent_none) ==
    [i \in 1..Len(ls) |->
        IF indent_none THEN Line(0, ls[i].line)
        ELSE Line(Times(ls[i].level), strip(ls[i].line))]

dump(h, id, indent_none, show_header) ==
    IF h[id]._line.none THEN <<>>
    ELSE (IF h[id]._trace # <<>> /\ show_header
          THEN <<Header(h[id]._trace),
                 IF ~Truthy(h[id]._line) THEN Newline ELSE Space>>
          ELSE <<>>)
         \o _put_lines(_iter_lines(h, id, -1, FALSE), indent_none)

(***************************************************************************)
(* Inputs of the tree builder: raw lines with every leading and trailing   *)
(* whitespace length, blank or not.                                        *)
(***************************************************************************)
SeqsUpTo(S, n) == UNION {[1..k -> S] : k \in 0..n}

ParseToks == {<<>>, <<<<"a">>>>}

ParseLinePool ==
    {[none |-> FALSE, lead |-> l, toks |-> t, trail |-> r] :
        l \in 0..MaxIndent, t \in ParseToks, r \in {0, 1}}

NoOut == [op |-> "none"]

\* The execution contexts that may run lookups at the same time, and the
\* frame of one lookup: where it stands in __getitem__ (pc), its self, key
\* and token, the index it is building, the pair it read, the node it
\* returns, and the arguments and heap it was issued with (start).
Threads == {1, 2}

NoPair == [lc |-> <<>>, token |-> <<>>, nodes |-> <<>>]

NoCall == [h |-> <<>>, node |-> 0, key |-> EmptyStr]

IdleThread ==
    [pc |-> "idle", self |-> 0, key |-> EmptyStr, nt |-> no_more,
     index |-> <<>>, pair |-> NoPair, ret |-> 0, start |-> NoCall]

InitCommon ==
    /\ heap = <<EmptyConf>>
    /\ stack = <<[node |-> Root, indent |-> 0]>>
    /\ pos = 0
    /\ pc = "parse"
    /\ held = {}
    /\ out = NoOut
    /\ calls = 0
    /\ platform \in {"posix", "nt"}
    /\ threads = [t \in Threads |-> IdleThread]

InitParse ==
    /\ lines \in SeqsUpTo(ParseLinePool, MaxLines)
    /\ InitCommon

(***************************************************************************)
(* The client: after construction it calls the public operations on the    *)
(* nodes it holds (the root and every node an operation returned).         *)
(***************************************************************************)
K(toks) == Str(0, toks)

ta == <<"a">>

tA == <<"A">>

tb == <<"b">>

tas == <<"a", ";">>

\* Documents of the query model: lines over a small vocabulary with both
\* letter cases, a statement terminator, a structural marker and nesting.
LinePool ==
    {Str(0, <<ta, tb>>), Str(0, <<tA, ta>>), Str(0, <<tas, tb>>),
     Str(0, <<tb, ta>>), Str(1, <<<<"!">>>>)}

LookupKeys == {K(<<ta>>), K(<<ta, tb>>), K(<<tas, tb>>)}

GetKeys == {K(<<ta>>), K(<<tb>>)}

ExpandKeys ==
    {K(<<<<"*">>, <<"*">>>>), K(<<<<"a", "*">>>>), K(<<ta, <<"~">>>>),
     K(<<ta, <<"~">>, tb>>), K(<<tb, <<"~">>, tb>>)}

Ready == pc = "ready" /\ calls < MaxCalls

Frame ==
    calls' = calls + 1 /\ UNCHANGED <<lines, stack, pos, pc, platform, threads>>

CallGetItem ==
    /\ Ready
    /\ \E n \in held, key \in LookupKeys :
          LET r == __getitem__(heap, n, key)
          IN /\ heap' = r.h
             /\ held' = held \cup {r.ret}
             /\ out' = [op |-> "getitem", node |-> n, key |-> key, ret |-> r.ret]
    /\ Frame

CallIter ==
    /\ Ready
    /\ \E n \in held :
          LET r == __iter__(heap, n)
          IN /\ heap' = r.h
             /\ out' = [op |-> "iter", node |-> n, res |-> r.res]
    /\ UNCHANGED held
    /\ Frame

CallLen ==
    /\ Ready
    /\ \E n \in held :
          LET r == __len__(heap, n)
          IN /\ heap' = r.h
             /\ out' = [op |-> "len", node |-> n, res |-> r.res]
    /\ UNCHANGED held
    /\ Frame

CallWord ==
    /\ Ready
    /\ \E n \in held :
          LET r == word(heap, n)
          IN /\ heap' = r.h
             /\ out' = [op |-> "word", node |-> n, err |-> r.err, res |-> r.res]
    /\ UNCHANGED held
    /\ Frame

CallGet ==
    /\ Ready
    /\ \E n \in held, key \in GetKeys :
          LET r == get(heap, n, key)
          IN /\ heap' = r.h
             /\ out' = [op |-> "get", node |-> n, key |-> key,
                        isdefault |-> r.isdefault, res |-> r.res]
    /\ UNCHANGED held
    /\ Frame

CallExpand ==
    /\ Ready
    /\ \E n \in held, key \in ExpandKeys, return_conf \in BOOLEAN :
          LET r == expand(heap, n, key, return_conf, platform)
          IN /\ heap' = r.h
             /\ held' = held \cup
                    {r.yields[i][Len(r.yields[i])].conf :
                        i \in {j \in 1..Len(r.yields) : return_conf}}
             /\ out' = [op |-> "expand", node |-> n, key |-> key,
                        return_conf |-> return_conf,
                        err |-> r.err, yields |-> r.yields]
    /\ Frame

CallDump ==
    /\ Ready
    /\ \E n \in held, indent_none \in BOOLEAN, show_header \in BOOLEAN :
          out' = [op |-> "dump", node |-> n, indent_none |-> indent_none,
                  show_header |-> show_header,
                  res |-> dump(heap, n, indent_none, show_header)]
    /\ UNCHANGED <<heap, held>>
    /\ Frame

\* return [x for x, in self.expand("~")]
TailTexts(r) ==
    [h |-> r.h, err |-> r.err,
     res |-> [i \in 1..Len(r.yields) |-> r.yields[i][1].text]]

CallTails ==
    /\ Ready
    /\ \E n \in held :
          LET r == TailTexts(tails(heap, n, platform))
          IN /\ heap' = r.h
             /\ out' = [op |-> "tails", node |-> n, err |-> r.err, res |-> r.res]
    /\ UNCHANGED held
    /\ Frame

Init ==
    /\ lines \in SeqsUpTo(LinePool, MaxLines)
    /\ InitCommon

Next ==
    \/ ParseLine
    \/ ParseDone
    \/ CallGetItem
    \/ CallIter
    \/ CallLen
    \/ CallWord
    \/ CallGet
    \/ CallExpand
    \/ CallDump
    \/ CallOrigLines
    \/ CallTails

Spec == Init /\ [][Next]_vars

(***************************************************************************)
(* What a caller can observe of a node.                                    *)
(***************************************************************************)
RECURSIVE DeepNode(_, _)
DeepNode(h, id) ==
    [line |-> h[id]._line, orig |-> h[id]._orig_line, lineno |-> h[id]._lineno,
     kids |-> [i \in 1..Len(h[id]._children) |-> DeepNode(h, h[id]._children[i])]]

View(h, id) ==
    [truthy |-> __bool__(h, id), content |-> h[id]._line,
     children |-> DeepNode(h, id).kids,
     lineno |-> h[id]._lineno, trace |-> h[id]._trace]

\* n[k1][k2]...[km]
RECURSIVE Chained(_, _, _)
Chained(h, id, toks) ==
    IF toks = <<>> THEN [h |-> h, ret |-> id]
    ELSE LET r == __getitem__(h, id, TokStr(Head(toks)))
         IN Chained(r.h, r.ret, Tail(toks))

\* The lines a node draws its next keywords from: its own line when that
\* has a keyword, otherwise the lines of its children.
OwnKeyword(h, id) == _next_token(h[id]._line).token # <<>>

KeywordLines(h, id) ==
    IF OwnKeyword(h, id) THEN <<[line |-> h[id]._line, lineno |-> h[id]._lineno]>>
    ELSE [i \in 1..Len(h[id]._children) |->
             [line   |-> h[h[id]._children[i]]._line,
              lineno |-> h[h[id]._children[i]]._lineno]]

Markers == {<<"{">>, <<"}">>, <<"#">>, <<"!">>}

StartsWithMarker(line) == line.toks # <<>> /\ line.toks[1] \in Markers

HasKeyword(line) ==
    ~line.none /\ line.toks # <<>> /\ ~StartsWithMarker(line)
    /\ _next_token(line).token # <<>>

\* Positions of the lines that show a keyword for the first time.
FirstSeen(L) ==
    {i \in 1..Len(L) :
        /\ HasKeyword(L[i].line)
        /\ \A j \in 1..(i - 1) :
              HasKeyword(L[j].line) =>
                  _next_token(L[j].line).lc # _next_token(L[i].line).lc}

ExpectedKeywords(L) ==
    [k \in 1..Cardinality(FirstSeen(L)) |->
        _next_token(L[Ascending(FirstSeen(L))[k]].line).token]

KeywordTokens == {ta, tA, tb, tas}

CompoundKeys == UNION {[1..m -> KeywordTokens] : m \in 2..3}

PlainKeys == UNION {[1..m -> {ta, tA, tb}] : m \in 2..3}

\* C1: for every node the client holds and every key of two or more
\* keywords, the single lookup n["k1 ... km"] and the chained lookups
\* n["k1"]...["km"] return nodes with the same truthiness, content,
\* children, source line number and trace, whatever indexes are populated.
C1_PathDecomposition ==
    pc = "ready" =>
        \A n \in held, toks \in CompoundKeys :
            LET one   == __getitem__(heap, n, K(toks))
                chain == Chained(heap, n, toks)
            IN View(one.h, one.ret) = View(chain.h, chain.ret)

\* The same law for keys none of whose keywords ends in the statement
\* terminator ";" (not the claim: the part of it the code keeps).
C1_PlainKeysOnly ==
    pc = "ready" =>
        \A n \in held, toks \in PlainKeys :
            LET one   == __getitem__(heap, n, K(toks))
                chain == Chained(heap, n, toks)
            IN View(one.h, one.ret) = View(chain.h, chain.ret)

\* C3: list(node) is the sequence of the distinct next keywords of the
\* node's lines (distinct ignoring case), in order of first appearance and
\* spelled as first seen; lines that start with a structural marker give
\* none; len(node) is the number of those keywords.
C3_IterFirstSeen ==
    /\ out.op = "iter" =>
          /\ out.res = ExpectedKeywords(KeywordLines(heap, out.node))
          /\ \A i, j \in 1..Len(out.res) :
                i # j => lower(out.res[i]) # lower(out.res[j])
          /\ __len__(heap, out.node).res = Len(out.res)
    /\ out.op = "len" =>
          out.res = Cardinality(FirstSeen(KeywordLines(heap, out.node)))

\* C3 witness: a node was iterated whose lines hold a structural-marker
\* line and the same keyword twice in different letter case.
C3_Witness ==
    /\ out.op = "iter"
    /\ LET L == KeywordLines(heap, out.node)
       IN /\ \E i \in 1..Len(L) : StartsWithMarker(L[i].line)
          /\ \E i, j \in 1..Len(L) :
                /\ i < j
                /\ HasKeyword(L[i].line) /\ HasKeyword(L[j].line)
                /\ _next_token(L[i].line).lc = _next_token(L[j].line).lc
                /\ _next_token(L[i].line).token # _next_token(L[j].line).token
                /\ out.res = <<_next_token(L[i].line).token>>

(***************************************************************************)
(* Statements about expand.                                                *)
(***************************************************************************)
HasTilde(key) == \E i \in 1..Len(key.toks) : key.toks[i] = <<"~">>

TildeNotLast(key) == \E i \in 1..(Len(key.toks) - 1) : key.toks[i] = <<"~">>

AllGlobs(key) ==
    key.toks # <<>> /\ \A i \in 1..Len(key.toks) : IsGlob(key.toks[i])

\* The keywords captured by a yielded tuple, and its trailing Conf.
RECURSIVE Words(_)
Words(t) ==
    IF t = <<>> THEN <<>>
    ELSE (IF Head(t).kind = "word" THEN <<Head(t).word>> ELSE <<>>) \o Words(Tail(t))

ConfOf(t) == t[Len(t)].conf

\* Source line number of the first of a node's lines that carries keyword k.
FirstLine(h, id, k) ==
    LET L == KeywordLines(h, id)
    IN Min({L[i].lineno : i \in {j \in 1..Len(L) :
                HasKeyword(L[j].line) /\ _next_token(L[j].line).lc = lower(k)}})

\* C4 as stated: the tuples of a pattern of literal and wildcard segments
\* come in document order of the lines they match (the matched line being
\* the source line of the Conf that return_conf adds to the tuple).
C4_DocumentOrder ==
    (out.op = "expand" /\ out.return_conf /\ ~HasTilde(out.key)) =>
        \A i, j \in 1..Len(out.yields) :
            i < j => heap[ConfOf(out.yields[i])]._lineno
                       <= heap[ConfOf(out.yields[j])]._lineno

\* C4 amended: expand yields its tuples keyword by keyword, depth first: at
\* each wildcard segment the keywords are taken in the order of their first
\* appearance among the lines of the node matched so far, and every tuple
\* under one keyword is yielded before any tuple under the next one.  Two
\* tuples are therefore ordered by the first line of the first keyword in
\* which they differ, not by the lines they match themselves.
C4_KeywordOrder ==
    (out.op = "expand" /\ AllGlobs(out.key)) =>
        \A i, j \in 1..Len(out.yields) :
            i < j =>
                LET wi == Words(out.yields[i])
                    wj == Words(out.yields[j])
                    g  == __getitem__(heap, out.node, TokStr(wi[1]))
                IN /\ Len(wi) = Len(out.key.toks)
                   /\ Len(wj) = Len(out.key.toks)
                   /\ IF wi[1] # wj[1]
                      THEN FirstLine(heap, out.node, wi[1])
                             < FirstLine(heap, out.node, wj[1])
                      ELSE /\ Len(wi) >= 2
                           /\ wi[2] # wj[2]
                           /\ FirstLine(g.h, g.ret, wi[2])
                                < FirstLine(g.h, g.ret, wj[2])

\* C4 witness: a two-wildcard expansion yielded a tuple whose line comes
\* after the line of a tuple yielded later.
C4_Witness ==
    /\ out.op = "expand" /\ out.return_conf /\ AllGlobs(out.key)
    /\ Len(out.key.toks) = 2
    /\ \E i, j \in 1..Len(out.yields) :
          /\ i < j
          /\ heap[ConfOf(out.yields[i])]._lineno
               > heap[ConfOf(out.yields[j])]._lineno

\* C7: a single glob segment g selects exactly the next keywords whose
\* lower-cased form matches the lower-cased g, and captures them as the
\* document spells them.
C7_GlobCaseInsensitive ==
    (out.op = "expand" /\ AllGlobs(out.key) /\ Len(out.key.toks) = 1) =>
        [i \in 1..Len(out.yields) |-> out.yields[i][1].word]
            = fnmatch_filter(__iter__(heap, out.node).res, "nt", out.key.toks[1])

\* C10: expand with a key in which "~" is followed by a further token
\* fails with ValueError (InvalidQueryUsage), whether or not the segments
\* before the "~" match anything.
C10_NonFinalTilde ==
    (out.op = "expand" /\ TildeNotLast(out.key)) => out.err = "ValueError"

(***************************************************************************)
(* Statements about word.                                                  *)
(***************************************************************************)
\* The node aggregates the lines of its children (it has no keyword of its
\* own) and n of them carry a keyword.
KeywordLineCount(h, id) ==
    Cardinality({i \in 1..Len(KeywordLines(h, id)) :
                    HasKeyword(KeywordLines(h, id)[i].line)})

Aggregates(h, id) == ~OwnKeyword(h, id) /\ KeywordLineCount(h, id) >= 2

DistinctKeywords(h, id) ==
    {_next_token(KeywordLines(h, id)[i].line).lc :
        i \in {j \in 1..Len(KeywordLines(h, id)) :
                  HasKeyword(KeywordLines(h, id)[j].line)}}

\* C5 as stated: word fails with AmbiguousMatch on every node that
\* aggregates two or more matching source lines, also when those lines
\* share their next keyword.
C5_AmbiguousOnLines ==
    (out.op = "word" /\ Aggregates(heap, out.node)) =>
        out.err = "KeyError:multiple"

\* C5 amended: word fails with AmbiguousMatch exactly when the lines of the
\* node carry two or more distinct next keywords (compared ignoring case);
\* a node that aggregates several lines sharing one next keyword returns
\* that keyword, and a node with no next keyword fails with NoMatch.
C5_AmbiguousOnKeywords ==
    out.op = "word" =>
        LET kws == DistinctKeywords(heap, out.node)
        IN /\ (out.err = "KeyError:multiple") = (Cardinality(kws) >= 2)
           /\ (out.err = "KeyError:none") = (kws = {})
           /\ (out.err = "none") = (Cardinality(kws) = 1)
           /\ out.err = "none" => kws = {out.res}

\* C5 witness: word was read on a node aggregating two or more lines that
\* share their next keyword, and it returned that keyword.
C5_Witness ==
    /\ out.op = "word"
    /\ Aggregates(heap, out.node)
    /\ heap[out.node]._trace # <<>>
    /\ out.err = "none"

\* C6: when word succeeds it returns the keyword as the document spells it,
\* the same value that iterating the node yields.
C6_WordDisplayForm ==
    (out.op = "word" /\ out.err = "none") =>
        <<out.res>> = __iter__(heap, out.node).res

(***************************************************************************)
(* Statements about dump.                                                  *)
(***************************************************************************)
\* The output C8 describes: the node's own text at the header, its
\* children one indent unit in, one further unit per level below.
ClaimedDump(h, id) ==
    <<Header(h[id]._trace), IF ~Truthy(h[id]._line) THEN Newline ELSE Space>>
    \o _put_lines(_iter_lines(h, id, 0, FALSE), FALSE)

ClaimedRootDump(h) == _put_lines(_iter_lines(h, Root, -1, FALSE), FALSE)

\* C8: dump of a node with a non-empty trace and the header shown writes
\* "[trace]", the node's own text on the same line (or a newline), every
\* direct child line behind one indent unit and each deeper line behind one
\* more unit per level; dump of the root writes top-level lines with no
\* prefix and one unit per level below.
C8_DumpIndent ==
    (out.op = "dump" /\ ~out.indent_none /\ __bool__(heap, out.node)) =>
        /\ (heap[out.node]._trace # <<>> /\ out.show_header) =>
              out.res = ClaimedDump(heap, out.node)
        /\ out.node = Root => out.res = ClaimedRootDump(heap)

NextParse == ParseLine \/ ParseDone \/ CallOrigLines

SpecParse == InitParse /\ [][NextParse]_vars

(***************************************************************************)
(* The tree builder's contract, stated on the input lines alone.           *)
(***************************************************************************)
NonBlank(i) == lines[i].toks # <<>>

\* The node of input line i (1-based): nodes are created in line order.
NodeOf(i) == 1 + Cardinality({j \in 1..i : NonBlank(j)})

\* Lines before i that are not blank and are indented strictly less than i.
Shallower(i) == {j \in 1..(i - 1) : NonBlank(j) /\ lines[j].lead < lines[i].lead}

ExpectedParent(i) ==
    IF Shallower(i) = {} THEN Root ELSE NodeOf(Max(Shallower(i)))

\* C2: every non-blank line consumed so far has exactly one node, which is a
\* child of the node of the nearest preceding non-blank line with a strictly
\* smaller leading-whitespace length (the root when there is none) and was
\* appended last there; blank lines have no node; the root stays at the
\* bottom of the stack; every input is consumed to the end.
C2_ParentRule ==
    /\ pos <= Len(lines)
    /\ Len(heap) = 1 + Cardinality({i \in 1..pos : NonBlank(i)})
    /\ \A p \in 1..Len(heap) :
          heap[p]._children =
              Ascending({NodeOf(i) : i \in {j \in 1..pos :
                                   NonBlank(j) /\ ExpectedParent(j) = p}})
    /\ \A i \in 1..pos : NonBlank(i) => heap[NodeOf(i)]._lineno = i - 1
    /\ Len(stack) >= 1
    /\ stack[1].node = Root
    /\ \A k \in 2..Len(stack) : stack[k].node # Root

\* C2 witness: a finished parse in which a blank line was skipped and the
\* line after it was attached, across the blank line, to the node of an
\* earlier line that is not the root.
C2_Witness ==
    /\ pc = "ready"
    /\ \E i \in 2..Len(lines) :
          /\ NonBlank(i) /\ ~NonBlank(i - 1)
          /\ ExpectedParent(i) # Root
          /\ heap[ExpectedParent(i)]._children = <<NodeOf(i)>>

NonBlankLines == {i \in 1..Len(lines) : NonBlank(i)}

RawNonBlank == [k \in 1..Cardinality(NonBlankLines) |->
                   lines[Ascending(NonBlankLines)[k]]]

RaceKeys == LookupKeys

\* both contexts call conf[key] on the freshly constructed root
RaceBegin ==
    /\ pc = "ready"
    /\ calls = 0
    /\ \E keys \in [Threads -> RaceKeys] :
          threads' = [t \in Threads |->
                         [IdleThread EXCEPT
                             !.pc = "test", !.self = Root, !.key = keys[t],
                             !.start = [h |-> heap, node |-> Root,
                                        key |-> keys[t]]]]
    /\ pc' = "race"
    /\ UNCHANGED <<lines, heap, stack, pos, held, out, calls, platform>>

RaceFrame == UNCHANGED <<lines, stack, pos, pc, held, out, calls, platform>>

\* token_lc, _, rest = self._next_token(key); if not token_lc: return self
\* then _reindex's  if self._index: return
TestOf(T, nt) ==
    IF nt.lc = <<>> THEN [T EXCEPT !.pc = "done", !.ret = T.self]
    ELSE IF heap[T.self]._index # <<>> THEN [T EXCEPT !.pc = "read", !.nt = nt]
    ELSE [T EXCEPT !.pc = "build", !.nt = nt]

ThreadTest(t) ==
    /\ pc = "race"
    /\ threads[t].pc = "test"
    /\ threads' = [threads EXCEPT ![t] = TestOf(threads[t], _next_token(threads[t].key))]
    /\ UNCHANGED heap
    /\ RaceFrame

\* index = {} ... the loop over the node's own line or its children
BuildOf(t, r) ==
    /\ heap' = r.h
    /\ threads' = [threads EXCEPT ![t].pc = "store", ![t].index = r.index]

ThreadBuild(t) ==
    /\ pc = "race"
    /\ threads[t].pc = "build"
    /\ BuildOf(t, _build_index(heap, threads[t].self, heap[threads[t].self],
                               _next_token(heap[threads[t].self]._line)))
    /\ RaceFrame

\* self._index = index
ThreadStore(t) ==
    /\ pc = "race"
    /\ threads[t].pc = "store"
    /\ heap' = _store_index([h |-> heap, index |-> threads[t].index],
                            threads[t].self)
    /\ threads' = [threads EXCEPT ![t].pc = "read"]
    /\ RaceFrame

\* token, ret_list = pair; ret = ret_list[0] or a new merge node
ReadPair(t, pair) ==
    IF Len(pair.nodes) = 1
    THEN /\ heap' = heap
         /\ threads' = [threads EXCEPT ![t].pc = "trace", ![t].pair = pair,
                                       ![t].ret = pair.nodes[1]]
    ELSE /\ heap' = Append(heap, _new(EmptyStr, heap[pair.nodes[1]]._lineno,
                                      pair.nodes,
                                      heap[pair.nodes[1]]._orig_line))
         /\ threads' = [threads EXCEPT ![t].pc = "trace", ![t].pair = pair,
                                       ![t].ret = Len(heap) + 1]

\* pair = self._index.get(token_lc); if not pair: return Conf()
ReadOf(t, T, index) ==
    IF ~HasKey(index, T.nt.lc)
    THEN /\ heap' = Append(heap, EmptyConf)
         /\ threads' = [threads EXCEPT ![t].pc = "done",
                                       ![t].ret = Len(heap) + 1]
    ELSE ReadPair(t, index[KeyPos(index, T.nt.lc)])

ThreadRead(t) ==
    /\ pc = "race"
    /\ threads[t].pc = "read"
    /\ ReadOf(t, threads[t], heap[threads[t].self]._index)
    /\ RaceFrame

\* ret._trace = (*self._trace, token); if rest: return ret[rest]; return ret
TraceOf(T) ==
    IF Truthy(T.nt.rest)
    THEN [T EXCEPT !.pc = "test", !.self = T.ret, !.key = T.nt.rest]
    ELSE [T EXCEPT !.pc = "done"]

ThreadTrace(t) ==
    /\ pc = "race"
    /\ threads[t].pc = "trace"
    /\ heap' = [heap EXCEPT ![threads[t].ret]._trace =
                    Append(heap[threads[t].self]._trace, threads[t].pair.token)]
    /\ threads' = [threads EXCEPT ![t] = TraceOf(threads[t])]
    /\ RaceFrame

NextRace ==
    \/ ParseLine
    \/ ParseDone
    \/ RaceBegin
    \/ \E t \in Threads : ThreadTest(t)
    \/ \E t \in Threads : ThreadBuild(t)
    \/ \E t \in Threads : ThreadStore(t)
    \/ \E t \in Threads : ThreadRead(t)
    \/ \E t \in Threads : ThreadTrace(t)

SpecRace == Init /\ [][NextRace]_vars

\* what a lookup returns when it runs alone from the state it was issued in
Alone(T) == __getitem__(T.start.h, T.start.node, T.start.key)

\* an index by value: its keys, display keywords and the nodes of each key
IndexValue(h, index) ==
    [i \in 1..Len(index) |->
        [lc |-> index[i].lc, token |-> index[i].token,
         nodes |-> [j \in 1..Len(index[i].nodes) |->
                       DeepNode(h, index[i].nodes[j])]]]

AllDone == \A t \in Threads : threads[t].pc = "done"

\* C11: under every interleaving of the two lookups' steps on the root,
\* a finished lookup has returned a node with the truthiness, content,
\* children, source line number and trace it returns when run alone, and
\* once both have finished the index stored on the root equals, by value,
\* the index a single run stores.
C11_RaceSafe ==
    /\ \A t \in Threads :
          threads[t].pc = "done" =>
              View(heap, threads[t].ret)
                  = View(Alone(threads[t]).h, Alone(threads[t]).ret)
    /\ AllDone =>
          IndexValue(heap, heap[Root]._index)
              = IndexValue(_reindex(threads[1].start.h, Root),
                           _reindex(threads[1].start.h, Root)[Root]._index)

\* both lookups found the root's index empty, each built and stored a map
\* of its own, and they returned two distinct truthy nodes
C11_Witness ==
    /\ AllDone
    /\ \A t \in Threads : threads[t].self = Root /\ threads[t].index # <<>>
    /\ threads[1].index # threads[2].index
    /\ threads[1].ret # threads[2].ret
    /\ \A t \in Threads : __bool__(heap, threads[t].ret)
    /\ threads[1].key = threads[2].key

\* a node without its lazy index, and without its index and trace
Frozen(c) == [c EXCEPT !._index = <<>>]

FrozenButTrace(c) == [c EXCEPT !._index = <<>>, !._trace = <<>>]

\* C12: once the tree is constructed, no call changes the content,
\* original text, source line number, children or trace of a node that
\* existed before the call; only the node's lazy index may change.
C12_Immutable ==
    [][pc = "ready" =>
          \A i \in 1..Len(heap) : Frozen(heap'[i]) = Frozen(heap[i])]_vars

\* the same frame with the trace left out: content, original text, source
\* line number and children of an existing node are never changed
C12_FrozenButTrace ==
    [][pc = "ready" =>
          \A i \in 1..Len(heap) :
              FrozenButTrace(heap'[i]) = FrozenButTrace(heap[i])]_vars

\* a truthy node with no line text of its own
IsAggregate(h, id) == __bool__(h, id) /\ ~Truthy(h[id]._line)

ChildTexts(h, id) ==
    [i \in 1..Len(h[id]._children) |-> strip(h[h[id]._children[i]]._line)]

\* C13: tails (expand("~")) on a truthy node without line text of its own,
\* merge nodes included, raises nothing and returns one stripped line text
\* per child, in child order; every child of such a node has line text.
C13_TailsOfAggregate ==
    (out.op = "tails" /\ IsAggregate(heap, out.node)) =>
        /\ out.err = "none"
        /\ out.res = ChildTexts(heap, out.node)
        /\ \A i \in 1..Len(heap[out.node]._children) :
              Truthy(heap[heap[out.node]._children[i]]._line)

\* where tails succeeds on an aggregate it returns the children's texts
C13_TailsWhenNoError ==
    (out.op = "tails" /\ IsAggregate(heap, out.node) /\ out.err = "none") =>
        out.res = ChildTexts(heap, out.node)
====
